---- MODULE Spec2Model ----
(***************************************************************************)
(* Model of the data-access layer of the Inventory Manager (src/db.py):    *)
(* the Categories and Products tables, SQLite's sqlite_sequence table that *)
(* backs AUTOINCREMENT, and the CRUD and report functions over them.       *)
(*                                                                         *)
(* Every function opens its own connection and runs one statement or one   *)
(* transaction, so a call that no other connection interleaves with is one *)
(* atomic action here.  The connection of get_connection never issues      *)
(* PRAGMA foreign_keys = ON, so the FOREIGN KEY clause of Products is      *)
(* declared but not enforced (SQLite default).                             *)
(*                                                                         *)
(* A second connection runs delete_category one statement at a time, so    *)
(* that the calls of the first connection interleave with its transaction  *)
(* under SQLite's WAL rules: a reader is never blocked, one connection     *)
(* writes at a time, and a transaction that has read cannot start writing  *)
(* once another connection has committed (SQLITE_BUSY).  Two users of the  *)
(* application each keep the product row their page last read.             *)
(***************************************************************************)
EXTENDS Integers, FiniteSets, Sequences, TLC

\* ---------------------------------------------------------------- bounds
MaxCategoryId == 3
\* Greatest category id a product write is given.
MaxReferencedId == 2
MaxProductId == 2
MaxPrice == 2
MaxStock == 1
\* Most connections open at once: one running a call, the others leaked.
MaxOpenConnections == 2

\* Python None / SQL NULL passed where a name is expected.
NULL == "<None>"
\* Names in ascending order of SQLite's BINARY collation.
NameOrder == <<"a", "b">>
Names == {NameOrder[i] : i \in 1..Len(NameOrder)}
NameArgs == Names \cup {NULL}
Prices == 1..MaxPrice
Stocks == 0..MaxStock
CategoryIdArgs == 1..MaxCategoryId
ReferencedIdArgs == 1..MaxReferencedId
\* Ids a query is filtered by; 0 is an id no AUTOINCREMENT insert assigns.
FilterIdArgs == 0..MaxReferencedId
ProductIdArgs == 1..MaxProductId

\* Optional[T] is modelled as a set with at most one element.
None == {}
Some(x) == {x}

VARIABLES
    categories,       \* rows of table Categories: [category_id, name]
    products,         \* rows of table Products
    sqlite_sequence,  \* rows of SQLite's sqlite_sequence: [name, seq]
    call,             \* the last call: [op] and the key it was given
    ret,              \* what the last call returned
    assigned,         \* per table, the ids assigned since it was last empty
    everAssigned,     \* per table, the greatest id ever assigned
    raised,           \* the exception the last call raised, or None
    open_connections, \* connections opened and not closed
    txn,              \* the delete_category transaction of the second connection
    seen              \* per user, the product row the user's page last read

db == <<categories, products, sqlite_sequence>>
hist == <<assigned, everAssigned>>
vars == <<categories, products, sqlite_sequence, call, ret, assigned, everAssigned,
          raised, open_connections, txn, seen>>

\* The two users of the concurrent update scenario.
Users == {"A", "B"}

Tables == {"Categories", "Products"}

\* ------------------------------------------------------------ helpers
Max(S) == CHOOSE m \in S : \A x \in S : x <= m

CategoryIds == {c.category_id : c \in categories}
ProductIds == {p.product_id : p \in products}

\* The seq SQLite reads from sqlite_sequence for a table (0 when no row).
SeqIn(seqRows, tbl) ==
    LET rows == {r \in seqRows : r.name = tbl}
    IN  IF rows = {} THEN 0 ELSE Max({r.seq : r \in rows})

SeqOf(tbl) == SeqIn(sqlite_sequence, tbl)

\* A plain INTEGER PRIMARY KEY: one more than the greatest rowid present.
Rowid_NoAutoincrement(tbl, ids) == Max(ids \cup {0}) + 1

\* INTEGER PRIMARY KEY AUTOINCREMENT: one more than the larger of the
\* greatest rowid in the table and the seq recorded in sqlite_sequence.
AutoincrementRowid(tbl, ids) == Max(ids \cup {SeqOf(tbl)}) + 1

\* The insert records the rowid it assigned in sqlite_sequence.
RecordSeq(seqRows, tbl, id) ==
    {r \in seqRows : r.name # tbl} \cup {[name |-> tbl, seq |-> id]}

\* A reset that leaves the recorded seq in place.
ResetSeq_Keep(seqRows, tbl) == seqRows

\* DELETE FROM sqlite_sequence WHERE name = tbl; INSERT (tbl, 0).
ResetSeq(seqRows, tbl) ==
    LET afterDelete == {r \in seqRows : r.name # tbl}
    IN  afterDelete \cup {[name |-> tbl, seq |-> 0]}

\* Ghost bookkeeping of an insert that assigned id to a row of tbl.
NoteAssigned(tbl, wasEmpty, id) ==
    /\ assigned' = [assigned EXCEPT ![tbl] = IF wasEmpty THEN {id} ELSE @ \cup {id}]
    /\ everAssigned' = [everAssigned EXCEPT ![tbl] = IF id > @ THEN id ELSE @]

\* ------------------------------------------------------- connections
\* No delete_category is running on the second connection.
Idle == [pc |-> "idle", category_id |-> 0, stale |-> FALSE,
         categories |-> {}, sqlite_sequence |-> {}]

\* Where the second connection holds a read snapshot and no write lock
\* (after its SELECT COUNT), and where it holds the write lock (from its
\* DELETE to its commit).
SnapshotPcs == {"delete"}
WriterPcs == {"remaining", "seq_delete", "seq_insert", "commit"}

\* A write statement of the first connection while the second holds the
\* write lock: the busy timeout of sqlite3.connect runs out and execute
\* raises OperationalError("database is locked").
DatabaseLocked == txn.pc \in WriterPcs

\* The call returned: it closed the connection it had opened.
Closed ==
    /\ raised' = None
    /\ UNCHANGED open_connections

\* The call committed no change to the database file.
NoWrite == UNCHANGED txn

\* The call committed a change: a read snapshot held by the second
\* connection is no longer the latest state of the database.
Wrote == txn' = [txn EXCEPT !.stale = @ \/ txn.pc \in SnapshotPcs]

\* ---------------------------------------------------------------- init
\* The state after init_db on a fresh file: both tables exist and are
\* empty, and sqlite_sequence exists with no row.
Init ==
    /\ categories = {}
    /\ products = {}
    /\ sqlite_sequence = {}
    /\ call = [op |-> "init_db"]
    /\ ret = None
    /\ assigned = [t \in Tables |-> {}]
    /\ everAssigned = [t \in Tables |-> 0]
    /\ raised = None
    /\ open_connections = 0
    /\ txn = Idle
    /\ seen = [u \in Users |-> None]

\* A CREATE TABLE that replaces the table it finds.
CreateTable_Replace(rows) == {}

\* CREATE TABLE IF NOT EXISTS on a table that exists: the statement does
\* nothing and the rows stay.
CreateTableIfNotExists(rows) == rows

\* init_db on an existing schema: both CREATE TABLE IF NOT EXISTS, both
\* CREATE INDEX IF NOT EXISTS (an index holds no row of its own), commit.
init_db ==
    /\ call' = [op |-> "init_db"]
    /\ ret' = None
    /\ categories' = CreateTableIfNotExists(categories)
    /\ products' = CreateTableIfNotExists(products)
    /\ Closed
    /\ UNCHANGED <<sqlite_sequence, hist, txn, seen>>

\* ------------------------------------------------------- categories
\* A name column declared NOT NULL but not UNIQUE.
CategoryIntegrityError_NoUnique(name) == name = NULL

\* name TEXT UNIQUE NOT NULL: what makes the INSERT raise IntegrityError.
CategoryIntegrityError(name) ==
    \/ name = NULL
    \/ \E c \in categories : c.name = name

\* Only sqlite3.IntegrityError is caught: an OperationalError leaves the
\* function past both conn.close() calls.
add_category(name) ==
    /\ call' = [op |-> "add_category", name |-> name]
    /\ UNCHANGED seen
    /\ IF DatabaseLocked
       THEN /\ open_connections < MaxOpenConnections
            /\ raised' = Some("OperationalError")
            /\ ret' = None
            /\ open_connections' = open_connections + 1
            /\ NoWrite
            /\ UNCHANGED <<db, hist>>
       ELSE IF CategoryIntegrityError(name)
       THEN /\ ret' = FALSE
            /\ Closed
            /\ NoWrite
            /\ UNCHANGED <<db, hist>>
       ELSE LET id == AutoincrementRowid("Categories", CategoryIds)
            IN  /\ id <= MaxCategoryId
                /\ categories' = categories \cup {[category_id |-> id, name |-> name]}
                /\ sqlite_sequence' = RecordSeq(sqlite_sequence, "Categories", id)
                /\ NoteAssigned("Categories", categories = {}, id)
                /\ ret' = TRUE
                /\ Closed
                /\ Wrote
                /\ UNCHANGED products

\* A product count that never sees a referencing product.
ProductCount_AlwaysZero(category_id) == 0

\* SELECT COUNT(*) FROM Products WHERE category_id = ?
ProductCount(category_id) ==
    Cardinality({p \in products : p.category_id = category_id})

\* The whole call, when no other connection commits during it.
delete_category(category_id) ==
    /\ call' = [op |-> "delete_category", category_id |-> category_id]
    /\ Closed
    /\ UNCHANGED seen
    /\ IF ProductCount(category_id) > 0 \/ DatabaseLocked
       THEN /\ ret' = FALSE
            /\ NoWrite
            /\ UNCHANGED <<db, hist>>
       ELSE LET remaining == {c \in categories : c.category_id # category_id}
            IN  /\ categories' = remaining
                /\ sqlite_sequence' =
                       IF Cardinality(remaining) = 0
                       THEN ResetSeq(sqlite_sequence, "Categories")
                       ELSE sqlite_sequence
                /\ ret' = TRUE
                /\ IF category_id \in CategoryIds \/ remaining = {}
                   THEN Wrote ELSE NoWrite
                /\ UNCHANGED <<products, hist>>

\* ---- delete_category on the second connection, statement by statement
\* A store where a transaction that has read may always go on to write.
BusySnapshot_Never(t) == FALSE

\* BEGIN TRANSACTION is deferred: the SELECT COUNT opened a read snapshot,
\* and the DELETE must turn it into a write transaction.  In WAL mode that
\* fails at once with SQLITE_BUSY when another connection has committed
\* since the snapshot was taken.
BusySnapshot(t) == t.stale

\* A handler that commits what the transaction wrote so far.
Rollback_KeepsWork(t) ==
    IF t.pc \in WriterPcs
    THEN <<t.categories, t.sqlite_sequence>>
    ELSE <<categories, sqlite_sequence>>

\* conn.rollback(): the committed Categories and sqlite_sequence stay.
Rollback(t) == <<categories, sqlite_sequence>>

\* conn.close() and return: the call ends with the given result.
Returns(result) ==
    /\ call' = [op |-> "delete_category", category_id |-> txn.category_id]
    /\ ret' = result
    /\ raised' = None
    /\ open_connections' = open_connections - 1
    /\ txn' = [Idle EXCEPT !.stale = txn.stale]

\* The statement ran and the call goes on to its next statement.
GoesOn == UNCHANGED <<db, hist, call, ret, raised, open_connections, seen>>

\* conn = get_connection(); cursor.execute('BEGIN TRANSACTION')
delete_category_begin(category_id) ==
    /\ txn.pc = "idle"
    /\ open_connections < MaxOpenConnections
    /\ txn' = [Idle EXCEPT !.pc = "count", !.category_id = category_id]
    /\ open_connections' = open_connections + 1
    /\ UNCHANGED <<db, hist, call, ret, raised, seen>>

\* SELECT COUNT(*) FROM Products WHERE category_id = ?, and the guard:
\* rollback, close and return False when a product has the category.
delete_category_count ==
    /\ txn.pc = "count"
    /\ IF ProductCount(txn.category_id) > 0
       THEN /\ Returns(FALSE)
            /\ UNCHANGED <<db, hist, seen>>
       ELSE /\ txn' = [txn EXCEPT !.pc = "delete", !.stale = FALSE]
            /\ GoesOn

\* DELETE FROM Categories WHERE category_id = ?
delete_category_delete ==
    /\ txn.pc = "delete"
    /\ IF BusySnapshot(txn)
       THEN /\ categories' = Rollback(txn)[1]
            /\ sqlite_sequence' = Rollback(txn)[2]
            /\ Returns(FALSE)
            /\ UNCHANGED <<products, hist, seen>>
       ELSE /\ txn' = [txn EXCEPT
                          !.pc = "remaining",
                          !.categories = {c \in categories :
                                             c.category_id # txn.category_id},
                          !.sqlite_sequence = sqlite_sequence]
            /\ GoesOn

\* SELECT COUNT(*) FROM Categories; if remaining == 0: ...
delete_category_remaining ==
    /\ txn.pc = "remaining"
    /\ txn' = [txn EXCEPT !.pc = IF Cardinality(txn.categories) = 0
                                 THEN "seq_delete" ELSE "commit"]
    /\ GoesOn

\* DELETE FROM sqlite_sequence WHERE name = "Categories"
delete_category_seq_delete ==
    /\ txn.pc = "seq_delete"
    /\ txn' = [txn EXCEPT
                   !.pc = "seq_insert",
                   !.sqlite_sequence = {r \in @ : r.name # "Categories"}]
    /\ GoesOn

\* INSERT INTO sqlite_sequence (name, seq) VALUES ("Categories", 0)
delete_category_seq_insert ==
    /\ txn.pc = "seq_insert"
    /\ txn' = [txn EXCEPT
                   !.pc = "commit",
                   !.sqlite_sequence = @ \cup {[name |-> "Categories", seq |-> 0]}]
    /\ GoesOn

\* conn.commit(); conn.close(); return True
delete_category_commit ==
    /\ txn.pc = "commit"
    /\ categories' = txn.categories
    /\ sqlite_sequence' = txn.sqlite_sequence
    /\ Returns(TRUE)
    /\ UNCHANGED <<products, hist, seen>>

\* The statement the call is at raises (a store error): except Exception
\* rolls back, closes and returns False.
delete_category_fails ==
    /\ txn.pc \in {"count", "delete"} \cup WriterPcs
    /\ categories' = Rollback(txn)[1]
    /\ sqlite_sequence' = Rollback(txn)[2]
    /\ Returns(FALSE)
    /\ UNCHANGED <<products, hist, seen>>

\* SELECT category_id, name FROM Categories ORDER BY category_id
RECURSIVE SortedById(_)
SortedById(rows) ==
    IF rows = {} THEN <<>>
    ELSE LET first == CHOOSE r \in rows : \A s \in rows : r.category_id <= s.category_id
         IN  <<first>> \o SortedById(rows \ {first})

get_all_categories ==
    [i \in 1..Cardinality(categories) |->
        <<SortedById(categories)[i].category_id, SortedById(categories)[i].name>>]

GetAllCategories ==
    /\ call' = [op |-> "get_all_categories"]
    /\ ret' = get_all_categories
    /\ Closed
    /\ UNCHANGED <<db, hist, txn, seen>>

\* --------------------------------------------------------- products
\* PRAGMA foreign_keys: off unless a connection turns it on, which
\* get_connection never does.
foreign_keys == FALSE

\* name TEXT NOT NULL and the FOREIGN KEY clause of Products: what makes
\* an INSERT or UPDATE of a product row raise.
ProductIntegrityError(name, category_id) ==
    \/ name = NULL
    \/ foreign_keys /\ category_id \notin CategoryIds

\* An INSERT whose price and stock parameters are bound in the wrong order.
add_product_SwappedColumns(name, price, stock, category_id) ==
    /\ call' = [op |-> "add_product"]
    /\ name # NULL
    /\ LET id == AutoincrementRowid("Products", ProductIds)
       IN  /\ id <= MaxProductId
           /\ products' = products \cup
                  {[product_id |-> id, name |-> name, price |-> stock,
                    stock |-> price, category_id |-> category_id]}
           /\ sqlite_sequence' = RecordSeq(sqlite_sequence, "Products", id)
           /\ NoteAssigned("Products", products = {}, id)
    /\ ret' = TRUE
    /\ Closed
    /\ Wrote
    /\ UNCHANGED <<categories, seen>>

add_product(name, price, stock, category_id) ==
    /\ call' = [op |-> "add_product"]
    /\ Closed
    /\ UNCHANGED seen
    /\ IF ProductIntegrityError(name, category_id) \/ DatabaseLocked
       THEN /\ ret' = FALSE
            /\ NoWrite
            /\ UNCHANGED <<db, hist>>
       ELSE LET id == AutoincrementRowid("Products", ProductIds)
            IN  /\ id <= MaxProductId
                /\ products' = products \cup
                       {[product_id |-> id, name |-> name, price |-> price,
                         stock |-> stock, category_id |-> category_id]}
                /\ sqlite_sequence' = RecordSeq(sqlite_sequence, "Products", id)
                /\ NoteAssigned("Products", products = {}, id)
                /\ ret' = TRUE
                /\ Wrote
                /\ UNCHANGED categories

\* An UPDATE without its WHERE clause: every row is rewritten.
UpdatedRows_NoWhere(product_id, name, price, stock, category_id) ==
    {[product_id |-> p.product_id, name |-> name, price |-> price,
      stock |-> stock, category_id |-> category_id] : p \in products}

\* UPDATE Products SET name, price, stock, category_id WHERE product_id = ?
UpdatedRows(product_id, name, price, stock, category_id) ==
    {IF p.product_id = product_id
     THEN [product_id |-> p.product_id, name |-> name, price |-> price,
           stock |-> stock, category_id |-> category_id]
     ELSE p : p \in products}

\* What the caller's page shows (seen) is the caller's to change.
update_product(product_id, name, price, stock, category_id) ==
    /\ call' = [op |-> "update_product", product_id |-> product_id]
    /\ Closed
    /\ IF \/ product_id \in ProductIds /\ ProductIntegrityError(name, category_id)
          \/ DatabaseLocked
       THEN /\ ret' = FALSE
            /\ NoWrite
            /\ UNCHANGED <<db, hist>>
       ELSE /\ products' = UpdatedRows(product_id, name, price, stock, category_id)
            /\ ret' = TRUE
            /\ IF product_id \in ProductIds THEN Wrote ELSE NoWrite
            /\ UNCHANGED <<categories, sqlite_sequence, hist>>

\* A delete_product that never resets the sequence.
delete_product_NoReset(product_id) ==
    /\ call' = [op |-> "delete_product", product_id |-> product_id]
    /\ products' = {p \in products : p.product_id # product_id}
    /\ ret' = TRUE
    /\ Closed
    /\ Wrote
    /\ UNCHANGED <<categories, sqlite_sequence, hist, seen>>

delete_product(product_id) ==
    /\ call' = [op |-> "delete_product", product_id |-> product_id]
    /\ Closed
    /\ UNCHANGED seen
    /\ IF DatabaseLocked
       THEN /\ ret' = FALSE
            /\ NoWrite
            /\ UNCHANGED <<db, hist>>
       ELSE LET remaining == {p \in products : p.product_id # product_id}
            IN  /\ products' = remaining
                /\ sqlite_sequence' =
                       IF Cardinality(remaining) = 0
                       THEN ResetSeq(sqlite_sequence, "Products")
                       ELSE sqlite_sequence
                /\ ret' = TRUE
                /\ IF product_id \in ProductIds \/ remaining = {}
                   THEN Wrote ELSE NoWrite
                /\ UNCHANGED <<categories, hist>>

\* ------------------------------------------------------------ queries
\* FROM Products p JOIN Categories c ON p.category_id = c.category_id
\* with the six selected columns.
JoinedRows ==
    {[product_id |-> p.product_id, name |-> p.name, price |-> p.price,
      stock |-> p.stock, category_id |-> p.category_id, category_name |-> c.name] :
        <<p, c>> \in {pc \in products \X categories :
                          pc[1].category_id = pc[2].category_id}}

NameRank(name) == CHOOSE i \in 1..Len(NameOrder) : NameOrder[i] = name

\* ORDER BY name: every listing of the rows, each once, with names
\* ascending; rows of equal name come in an order SQL leaves open.
OrderByName(rows) ==
    {s \in [1..Cardinality(rows) -> rows] :
        /\ \A i, j \in DOMAIN s : i # j => s[i] # s[j]
        /\ \A i, j \in DOMAIN s : i < j => NameRank(s[i].name) <= NameRank(s[j].name)}

\* Python truthiness of an Optional[int] and of an Optional[List[int]].
TruthyId(category_id) == category_id # None /\ category_id # Some(0)
TruthyIds(category_ids) == category_ids # None /\ category_ids # Some({})

TheValue(opt) == CHOOSE x \in opt : TRUE

\* The possible results of get_all_products.
get_all_products == OrderByName(JoinedRows)

\* The possible results of get_products_by_category.
get_products_by_category(category_id, category_ids) ==
    IF TruthyIds(category_ids)
    THEN OrderByName({r \in JoinedRows : r.category_id \in TheValue(category_ids)})
    ELSE IF TruthyId(category_id)
    THEN OrderByName({r \in JoinedRows : r.category_id = TheValue(category_id)})
    ELSE OrderByName(JoinedRows)

\* fetchone() of the join filtered on the primary key: a row or None.
get_product_by_id(product_id) ==
    {r \in JoinedRows : r.product_id = product_id}

RECURSIVE SumPrice(_)
SumPrice(rows) ==
    IF rows = {} THEN 0
    ELSE LET r == CHOOSE x \in rows : TRUE IN r.price + SumPrice(rows \ {r})

RECURSIVE SumStock(_)
SumStock(rows) ==
    IF rows = {} THEN 0
    ELSE LET r == CHOOSE x \in rows : TRUE IN r.stock + SumStock(rows \ {r})

\* An aggregate that adds price and stock instead of multiplying them.
SumValue_Added(rows) == SumPrice(rows) + SumStock(rows)

RECURSIVE SumValue(_)
SumValue(rows) ==
    IF rows = {} THEN 0
    ELSE LET r == CHOOSE x \in rows : TRUE IN r.price * r.stock + SumValue(rows \ {r})

\* ROUND(AVG(price), 2), in hundredths; half rounds away from zero.
RoundAvg2(sum, n) == (200 * sum + n) \div (2 * n)

\* The one row of aggregates the SELECT returns: NULL (None) for every
\* aggregate when no row is selected.
Aggregates(rows) ==
    IF rows = {}
    THEN [avg_price |-> None, total_stock |-> None, total_value |-> None]
    ELSE [avg_price |-> Some(RoundAvg2(SumPrice(rows), Cardinality(rows))),
          total_stock |-> Some(SumStock(rows)),
          total_value |-> Some(SumValue(rows))]

\* "x if x is not None else 0"
OrZero(opt) == IF opt # None THEN TheValue(opt) ELSE 0

get_category_report(category_id, category_ids) ==
    LET result ==
            IF TruthyIds(category_ids)
            THEN Aggregates({p \in products : p.category_id \in TheValue(category_ids)})
            ELSE IF TruthyId(category_id)
            THEN Aggregates({p \in products : p.category_id = TheValue(category_id)})
            ELSE Aggregates(products)
    IN  [avg_price |-> OrZero(result.avg_price),
         total_stock |-> OrZero(result.total_stock),
         total_value |-> OrZero(result.total_value)]

OptionalIdArgs == {None} \cup {Some(i) : i \in FilterIdArgs}
OptionalIdsArgs == {None} \cup {Some(S) : S \in SUBSET ReferencedIdArgs}

GetAllProducts ==
    /\ call' = [op |-> "get_all_products"]
    /\ ret' \in get_all_products
    /\ Closed
    /\ UNCHANGED <<db, hist, txn, seen>>

GetProductsByCategory(category_id, category_ids) ==
    /\ call' = [op |-> "get_products_by_category"]
    /\ ret' \in get_products_by_category(category_id, category_ids)
    /\ Closed
    /\ UNCHANGED <<db, hist, txn, seen>>

GetProductById(product_id) ==
    /\ call' = [op |-> "get_product_by_id"]
    /\ ret' = get_product_by_id(product_id)
    /\ Closed
    /\ UNCHANGED <<db, hist, txn, seen>>

GetCategoryReport(category_id, category_ids) ==
    /\ call' = [op |-> "get_category_report"]
    /\ ret' = get_category_report(category_id, category_ids)
    /\ Closed
    /\ UNCHANGED <<db, hist, txn, seen>>

\* ---------------------------------------------------------------- users
\* A user opens the update form of a product: the page reads the row with
\* get_product_by_id and shows it.
UserReads(u, product_id) ==
    /\ call' = [op |-> "get_product_by_id"]
    /\ ret' = get_product_by_id(product_id)
    /\ seen' = [seen EXCEPT ![u] = get_product_by_id(product_id)]
    /\ Closed
    /\ UNCHANGED <<db, hist, txn>>

\* The user submits a new stock: update_product is given the name, price
\* and category_id of the row the page read, and the new stock.  The page
\* reads the row again before the user's next update.
UserUpdates(u, new_stock) ==
    /\ seen[u] # None
    /\ LET product == TheValue(seen[u])
       IN  update_product(product.product_id, product.name, product.price,
                          new_stock, product.category_id)
    /\ seen' = [seen EXCEPT ![u] = None]

\* ================================================================ claims

\* C1: every stored product's category_id is the category_id of a category
\* row that currently exists (no orphaned product is reachable).
C1_NoOrphanedProduct ==
    \A p \in products : p.category_id \in CategoryIds

\* C2: delete_category(id) called while a product has category_id = id
\* returns false and leaves the category rows, the product rows and both
\* id counters exactly as they were.
C2_ReferencedCategoryKept ==
    [][(/\ call'.op = "delete_category"
        /\ \E p \in products : p.category_id = call'.category_id)
           => /\ ret' = FALSE
              /\ categories' = categories
              /\ products' = products
              /\ sqlite_sequence' = sqlite_sequence]_vars

C2_Witness ==
    /\ call.op = "delete_category"
    /\ ret = FALSE
    /\ \E c \in categories : c.category_id = call.category_id
    /\ \E p \in products : p.category_id = call.category_id

\* C3: when exactly one category exists and no product references it,
\* delete_category on it returns true and empties the table, and a
\* successful add_category on the empty table assigns category_id 1,
\* whatever ids had been assigned before.
C3_LastCategoryDeletedRestartsIds ==
    [][/\ (/\ call'.op = "delete_category"
           /\ CategoryIds = {call'.category_id}
           /\ ~ \E p \in products : p.category_id = call'.category_id)
              => ret' = TRUE /\ categories' = {}
       /\ (call'.op = "add_category" /\ categories = {} /\ ret' = TRUE)
              => categories' = {[category_id |-> 1, name |-> call'.name]}]_vars

\* A category was added with id 1 after ids up to 2 had been assigned and
\* the last remaining category had been deleted.
C3_Witness ==
    /\ call.op = "add_category"
    /\ ret = TRUE
    /\ CategoryIds = {1}
    /\ everAssigned["Categories"] > 1

\* C4: when exactly one product exists, delete_product on it returns true
\* and sets the product id counter to 0, and a successful add_product on
\* the empty table assigns product_id 1, whatever ids had been assigned.
C4_LastProductDeletedRestartsIds ==
    [][/\ (call'.op = "delete_product" /\ ProductIds = {call'.product_id})
              => /\ ret' = TRUE
                 /\ products' = {}
                 /\ SeqIn(sqlite_sequence', "Products") = 0
       /\ (call'.op = "add_product" /\ products = {} /\ ret' = TRUE)
              => {p.product_id : p \in products'} = {1}]_vars

C4_Witness ==
    /\ call.op = "add_product"
    /\ ret = TRUE
    /\ ProductIds = {1}
    /\ everAssigned["Products"] > 1

\* The id an insert into a table gave its new row, as a set: empty when
\* the step inserted nothing.
NewCategoryIds == {c.category_id : c \in categories'} \ CategoryIds
NewProductIds == {p.product_id : p \in products'} \ ProductIds

\* C5 (as claimed): an insert into a non-empty table assigns an id greater
\* than every id assigned since the table was last empty, and an insert
\* assigns an id not greater than a previously assigned id only when the
\* table was empty just before it, the id then being 1.
C5_Original ==
    [][/\ \A n \in NewCategoryIds :
             /\ categories # {} => \A m \in assigned["Categories"] : n > m
             /\ n <= everAssigned["Categories"] => (categories = {} /\ n = 1)
       /\ \A n \in NewProductIds :
             /\ products # {} => \A m \in assigned["Products"] : n > m
             /\ n <= everAssigned["Products"] => (products = {} /\ n = 1)]_vars

\* C5 (amended): an insert into a non-empty table assigns an id greater
\* than every id assigned since the table was last empty, and an insert
\* into an empty table assigns id 1.
C5_IdsIncreaseUntilEmpty ==
    [][/\ \A n \in NewCategoryIds :
             /\ categories # {} => \A m \in assigned["Categories"] : n > m
             /\ categories = {} => n = 1
       /\ \A n \in NewProductIds :
             /\ products # {} => \A m \in assigned["Products"] : n > m
             /\ products = {} => n = 1]_vars

\* A row was inserted after the row with the greatest id had been deleted
\* from a table that stayed non-empty: the new id skips the deleted one.
C5_Witness ==
    /\ call.op = "add_category"
    /\ ret = TRUE
    /\ CategoryIds = {1, 3}
    /\ assigned["Categories"] = {1, 2, 3}

\* C6: no two category rows have the same name: add_category with the
\* name of an existing category returns false, leaves Categories and its
\* id counter unchanged, and get_all_categories then lists that name once.
C6_CategoryNamesUnique ==
    [][/\ \A c1, c2 \in categories' : c1.name = c2.name => c1 = c2
       /\ (/\ call'.op = "add_category"
           /\ \E c \in categories : c.name = call'.name)
              => /\ ret' = FALSE
                 /\ categories' = categories
                 /\ sqlite_sequence' = sqlite_sequence
                 /\ Cardinality({i \in DOMAIN get_all_categories' :
                                    get_all_categories'[i][2] = call'.name}) = 1]_vars

C6_Witness ==
    /\ call.op = "add_category"
    /\ ret = FALSE
    /\ \E c \in categories : c.name = call.name
    /\ Cardinality(categories) = 2

\* C7: for every name, price, stock and category_id of an existing
\* category, add_product returns true and get_product_by_id on the newly
\* assigned id returns a row with that name, price, stock and category_id.
C7_AddThenGetRoundTrip ==
    [][\A name \in Names, price \in Prices, stock \in Stocks, cid \in ReferencedIdArgs :
          (add_product(name, price, stock, cid) /\ cid \in CategoryIds)
              => /\ ret' = TRUE
                 /\ Cardinality(NewProductIds) = 1
                 /\ \A id \in NewProductIds :
                       \E r \in get_product_by_id(id)' :
                           /\ r.name = name
                           /\ r.price = price
                           /\ r.stock = stock
                           /\ r.category_id = cid]_vars

\* A second product was added to an existing category and is returned by
\* get_product_by_id under the id it was given.
C7_Witness ==
    /\ call.op = "add_product"
    /\ ret = TRUE
    /\ Cardinality(products) = 2
    /\ \E r \in get_product_by_id(SeqOf("Products")) : r.product_id = 2

\* C8: after update_product returns true for an existing product id,
\* get_product_by_id(id) returns a row with exactly the new name, price,
\* stock and category_id, and every other product row, every category row
\* and both id counters are unchanged.
C8_UpdateThenGetRoundTrip ==
    [][\A id \in ProductIdArgs, name \in Names, price \in Prices, stock \in Stocks,
          cid \in ReferencedIdArgs :
          (/\ update_product(id, name, price, stock, cid)
           /\ id \in ProductIds
           /\ ret' = TRUE)
              => /\ \E r \in get_product_by_id(id)' :
                        /\ r.name = name
                        /\ r.price = price
                        /\ r.stock = stock
                        /\ r.category_id = cid
                 /\ {p \in products' : p.product_id # id}
                        = {p \in products : p.product_id # id}
                 /\ categories' = categories
                 /\ sqlite_sequence' = sqlite_sequence]_vars


\* The columns of a stored product that a result row carries.
ProductOf(r) ==
    [product_id |-> r.product_id, name |-> r.name, price |-> r.price,
     stock |-> r.stock, category_id |-> r.category_id]

\* C9: for every non-empty set S of category ids,
\* get_products_by_category(category_ids=S) returns exactly the stored
\* products whose category_id is in S, each once, in ascending order of
\* product name.
C9_ListingIsExactlyTheSelection ==
    \A S \in (SUBSET FilterIdArgs) \ {{}} :
        \A result \in get_products_by_category(None, Some(S)) :
            /\ {ProductOf(result[i]) : i \in DOMAIN result}
                   = {p \in products : p.category_id \in S}
            /\ \A i, j \in DOMAIN result : i # j => result[i] # result[j]
            /\ \A i, j \in DOMAIN result :
                   i < j => NameRank(result[i].name) <= NameRank(result[j].name)

\* The sum of f over the rows of S.
RECURSIVE SumOver(_, _)
SumOver(f, S) ==
    IF S = {} THEN 0
    ELSE LET x == CHOOSE y \in S : TRUE IN f[x] + SumOver(f, S \ {x})

\* What a report over the given rows must say of stock and value, and of
\* the average price when there is no row.
ReportCovers(report, rows) ==
    /\ report.total_stock = SumOver([p \in products |-> p.stock], rows)
    /\ report.total_value = SumOver([p \in products |-> p.price * p.stock], rows)
    /\ rows = {} => (report.total_stock = 0 /\ report.total_value = 0
                     /\ report.avg_price = 0)

\* C10 (as claimed): get_category_report covers all products when no
\* filter is given (no argument, or an empty list), the rows with that
\* category_id for a single id, and the rows whose category_id is in the
\* set for a set of ids.
C10_Original ==
    /\ ReportCovers(get_category_report(None, None), products)
    /\ ReportCovers(get_category_report(None, Some({})), products)
    /\ \A i \in FilterIdArgs :
           ReportCovers(get_category_report(Some(i), None),
                        {p \in products : p.category_id = i})
    /\ \A S \in (SUBSET FilterIdArgs) \ {{}} :
           ReportCovers(get_category_report(None, Some(S)),
                        {p \in products : p.category_id \in S})

\* C10 (amended): get_category_report covers the rows whose category_id is
\* in the list when a non-empty list is given; otherwise the rows with the
\* given category_id when it is a non-zero id; otherwise (no argument, an
\* empty list, category_id 0) all products.  total_stock and total_value
\* are the sums over those rows, and both and avg_price are 0 when there
\* is no such row.
C10_ReportCoversSelection ==
    \A cid \in OptionalIdArgs, cids \in OptionalIdsArgs :
        ReportCovers(get_category_report(cid, cids),
            IF cids # None /\ TheValue(cids) # {}
            THEN {p \in products : p.category_id \in TheValue(cids)}
            ELSE IF cid # None /\ TheValue(cid) # 0
            THEN {p \in products : p.category_id = TheValue(cid)}
            ELSE products)

\* A report filtered on category 1 was returned that covers one of two
\* stored products.
C10_Witness ==
    /\ call.op = "get_category_report"
    /\ Cardinality(products) = 2
    /\ Cardinality({p \in products : p.category_id = 1}) = 1
    /\ ret = get_category_report(None, Some({1}))
    /\ ret # get_category_report(None, None)
    /\ ret.total_value > ret.total_stock

\* C11: whenever a call has ended (by a normal return, a guarded failure
\* or an exception) the connection it opened is closed: the only open
\* connection is that of a call still running.
C11_NoConnectionLeftOpen ==
    open_connections = (IF txn.pc = "idle" THEN 0 ELSE 1)

\* C12: delete_category(id) returns true only if a category with that id
\* existed and the call removed it; it returns false when a product has
\* that category_id and also when no category has that id.
C12_TrueOnlyIfRemoved ==
    [][call'.op = "delete_category"
          => /\ ret' = TRUE
                    => /\ call'.category_id \in CategoryIds
                       /\ call'.category_id \notin {c.category_id : c \in categories'}
             /\ ProductCount(call'.category_id) > 0 => ret' = FALSE
             /\ call'.category_id \notin CategoryIds => ret' = FALSE]_vars

\* C13: when a statement of delete_category fails after its transaction
\* began, the call returns false and commits nothing: Categories, Products
\* and sqlite_sequence are as before, and no statement of the transaction
\* changes the committed state before the commit.
C13_FailureRollsBack ==
    [][/\ delete_category_fails => ret' = FALSE
       /\ (txn.pc # "idle" /\ txn'.pc = "idle" /\ ret' = FALSE)
              => /\ categories' = categories
                 /\ products' = products
                 /\ sqlite_sequence' = sqlite_sequence
       /\ txn'.pc \notin {txn.pc, "idle"}
              => /\ categories' = categories
                 /\ products' = products
                 /\ sqlite_sequence' = sqlite_sequence]_vars

\* delete_category of the only category, which no product references and
\* no other connection interfered with, returned false: a statement of it
\* failed.  The category and its recorded seq are still there.
C13_Witness ==
    /\ call.op = "delete_category"
    /\ ret = FALSE
    /\ txn.pc = "idle"
    /\ ~ txn.stale
    /\ CategoryIds = {call.category_id}
    /\ ProductCount(call.category_id) = 0
    /\ SeqOf("Categories") = call.category_id
    /\ products # {}

\* C14: add_category(name) returns false if and only if name is the name
\* of an existing category; a name rejected by the NOT NULL constraint is
\* never reported as a false return value.
C14_FalseIffDuplicateName ==
    [][(call'.op = "add_category" /\ raised' = None)
          => (ret' = FALSE <=> \E c \in categories : c.name = call'.name)]_vars

\* C15: init_db called when the schema exists returns normally and leaves
\* every category row, every product row and both id counters unchanged.
C15_InitDbIdempotent ==
    [][call'.op = "init_db"
          => /\ ret' = None
             /\ categories' = categories
             /\ products' = products
             /\ sqlite_sequence' = sqlite_sequence]_vars

\* init_db was called on a database that holds categories and products.
C15_Witness ==
    /\ call.op = "init_db"
    /\ Cardinality(categories) = 2
    /\ Cardinality(products) = 2
    /\ SeqOf("Categories") = 3

\* C16: when two users each read a product and then each update it, the
\* user whose update commits second has seen the first user's committed
\* update: every update a user submits is based on the row as it is
\* committed when the update runs.
C16_NoLostUpdate ==
    [][\A u \in Users, new_stock \in Stocks :
          UserUpdates(u, new_stock)
              => seen[u] = get_product_by_id(TheValue(seen[u]).product_id)]_vars

\* C17: however the statements of delete_category(c) on one connection
\* interleave with add_product(..., c) on another, delete_category never
\* returns true when a product with category_id c was committed before the
\* delete committed: it then returns false and the category rows stay.
C17_CheckAndDeleteAtomic ==
    [][(txn.pc # "idle" /\ txn'.pc = "idle")
          => /\ ret' = TRUE => ProductCount(txn.category_id) = 0
             /\ ProductCount(txn.category_id) > 0
                    => (ret' = FALSE /\ categories' = categories)]_vars

\* delete_category(c) counted no product of category c, a product of that
\* category was then committed by the other connection, and the call
\* returned false with the category still there.
C17_Witness ==
    /\ call.op = "delete_category"
    /\ ret = FALSE
    /\ txn.pc = "idle"
    /\ txn.stale
    /\ call.category_id \in CategoryIds
    /\ Cardinality(products) = 1
    /\ ProductCount(call.category_id) = 1

\* C18: for every selection S (none, or a set of ids), the figures of
\* get_category_report(category_ids=S) are those recomputed from the rows
\* get_products_by_category(category_ids=S) returns: total_stock is the
\* sum of their stock and total_value the sum of their price * stock.
C18_ReportMatchesListing ==
    \A S \in OptionalIdsArgs :
        \A result \in get_products_by_category(None, S) :
            LET report == get_category_report(None, S)
            IN  /\ report.total_stock =
                       SumOver([i \in DOMAIN result |-> result[i].stock], DOMAIN result)
                /\ report.total_value =
                       SumOver([i \in DOMAIN result |-> result[i].price * result[i].stock],
                               DOMAIN result)

\* C19: update_product or delete_product called with a product_id that no
\* stored product has changes no product row and no category row, and
\* returns true.
C19_NoMatchChangesNothing ==
    [][(/\ call'.op \in {"update_product", "delete_product"}
        /\ call'.product_id \notin ProductIds)
           => /\ ret' = TRUE
              /\ products' = products
              /\ categories' = categories]_vars

\* update_product was called with id 2 while only product 1 is stored.
C19_Witness ==
    /\ call.op = "update_product"
    /\ call.product_id = 2
    /\ ProductIds = {1}
    /\ categories # {}
    /\ ret = TRUE

\* ---------------------------------------------------------------- next
\* The calls that write (init_db writes nothing once the schema exists).
NextWrites ==
    \/ init_db
    \/ \E name \in NameArgs : add_category(name)
    \/ \E id \in CategoryIdArgs : delete_category(id)
    \/ \E name \in NameArgs, price \in Prices, stock \in Stocks, cid \in ReferencedIdArgs :
           add_product(name, price, stock, cid)
    \/ \E pid \in ProductIdArgs, name \in NameArgs, price \in Prices, stock \in Stocks,
          cid \in ReferencedIdArgs :
           update_product(pid, name, price, stock, cid) /\ UNCHANGED seen
    \/ \E pid \in ProductIdArgs : delete_product(pid)

\* The queries.
NextQueries ==
    \/ GetAllCategories
    \/ GetAllProducts
    \/ \E cid \in OptionalIdArgs, cids \in OptionalIdsArgs : GetProductsByCategory(cid, cids)
    \/ \E pid \in ProductIdArgs : GetProductById(pid)
    \/ \E cid \in OptionalIdArgs, cids \in OptionalIdsArgs : GetCategoryReport(cid, cids)

Next == NextWrites \/ NextQueries

\* delete_category on the second connection, one statement at a time,
\* while the first connection adds categories and products (of one price
\* and stock: neither is read by delete_category).
NextTransaction ==
    \/ \E name \in NameArgs : add_category(name)
    \/ \E name \in NameArgs, cid \in ReferencedIdArgs :
           add_product(name, MaxPrice, MaxStock, cid)
    \/ \E id \in CategoryIdArgs : delete_category_begin(id)
    \/ delete_category_count
    \/ delete_category_delete
    \/ delete_category_remaining
    \/ delete_category_seq_delete
    \/ delete_category_seq_insert
    \/ delete_category_commit
    \/ delete_category_fails

\* Every function of the layer, called in any order.
Spec == Init /\ [][Next]_vars

\* The writing functions alone: the queries change no table, so the same
\* database states are reached.
SpecWrites == Init /\ [][NextWrites]_vars

\* Two users who each read a product and then update its stock, in a
\* database that categories and products are added to.
NextUsers ==
    \/ \E name \in Names : add_category(name)
    \/ \E name \in Names, price \in Prices, stock \in Stocks, cid \in ReferencedIdArgs :
           add_product(name, price, stock, cid)
    \/ \E u \in Users, pid \in ProductIdArgs : UserReads(u, pid)
    \/ \E u \in Users, new_stock \in Stocks : UserUpdates(u, new_stock)

SpecUsers == Init /\ [][NextUsers]_vars

\* The interleavings of a delete_category transaction with the inserts of
\* another connection.
SpecTransaction == Init /\ [][NextTransaction]_vars
====
